---------------------------- MODULE Spec2Model ----------------------------
(***************************************************************************)
(* Model of the OddsExtractor capture pipeline:                            *)
(*   src/turkish_parser1.py  FlexibleTurkishParser, FlexibleSheetsManager, *)
(*                           main                                          *)
(*   src/sheets1.py          GoogleSheetsManager                           *)
(*                                                                         *)
(* A Python str is a sequence of characters; a character is a one-letter   *)
(* string, a code point outside ASCII is the token "U+XXXX" and a tab is   *)
(* the token "TAB".  A sheet row is a sequence of cells, a cell is a str.  *)
(***************************************************************************)
EXTENDS Integers, Sequences, FiniteSets, TLC

VARIABLES
    \* ---- main() and the objects it owns --------------------------------
    running,            \* the `while True` loop has not hit `break`
    clock,              \* wall clock, whole seconds since the run started
    last_process_time,  \* main: last_process_time (0 = never / forced by 's')
    processed_matches,  \* FlexibleTurkishParser.processed_matches
    headers_written,    \* FlexibleSheetsManager.headers_written
    store,              \* the worksheet: the rows the sink holds
    ocr_lines,          \* main: ocr_lines of the iteration that ran last
    outcome,            \* main: what the last iteration did (its locals)
    appended_ids,       \* history: data_id of every data row the sink took
    \* ---- direct calls on a GoogleSheetsManager -------------------------
    before,             \* history: the store when the last call started
    call,               \* history: the last adapter call and its result
    cleanRuns,          \* history: consecutive clean remove_duplicates runs
    \* ---- calls of the pure parser methods ------------------------------
    arg,                \* the argument of the call
    ret                 \* its return value (NotCalled before the call)

driverVars == <<running, last_process_time, processed_matches,
                headers_written, ocr_lines, outcome, appended_ids>>
sinkVars   == <<before, call, cleanRuns>>
pureVars   == <<arg, ret>>
vars == <<running, clock, last_process_time, processed_matches,
          headers_written, store, ocr_lines, outcome, appended_ids,
          before, call, cleanRuns, arg, ret>>

(***************************************************************************)
(* Bounds of the model                                                     *)
(***************************************************************************)
MaxLineLen == 5     \* characters of a line handed to is_team_match
MaxScoreLines == 2  \* lines handed to find_hidden_score
MaxOdds == 16       \* odds lines of a capture handed to create_flexible_row
MaxStore == 5       \* rows of the sheet at which the run is cut off
MaxTicks == 2       \* times the clock advances during the run
MaxRows == 4        \* rows of the sheet under direct adapter calls
MaxBatch == 2       \* rows handed to one write_rows_batch call
MaxTriageLines == 2
\* the epoch second at which the run starts (2026-11-04 00:00:00 UTC)
RunStart == 1793750400

(***************************************************************************)
(* Python values                                                           *)
(***************************************************************************)
\* Python's None, where a str is expected: no str has a token of this shape.
None == <<"<None>">>
\* `ret` before and after the call of a method
NotCalled == [done |-> FALSE, value |-> <<>>]
Called(v) == [done |-> TRUE, value |-> v]

\* `outcome` and `call` before anything has run
NoOutcome == [branch |-> "none", forwarded |-> <<>>, appended |-> FALSE,
              success |-> FALSE, data_id |-> None]
NoCall == [op |-> "none", failed |-> FALSE, ret |-> FALSE, removed |-> 0]

Min(a, b) == IF a < b THEN a ELSE b

\* All sequences over S of length 0..n.
SeqUpTo(S, n) == UNION { [1..k -> S] : k \in 0..n }

(***************************************************************************)
(* Characters                                                              *)
(***************************************************************************)
LowerLetters == <<"a","b","c","d","e","f","g","h","i","j","k","l","m",
                  "n","o","p","q","r","s","t","u","v","w","x","y","z",
                  "U+00E0","U+00E4","U+00EA","U+00EC","U+00ED","U+00EE",
                  "U+00FC","U+0192">>
UpperLetters == <<"A","B","C","D","E","F","G","H","I","J","K","L","M",
                  "N","O","P","Q","R","S","T","U","V","W","X","Y","Z",
                  "U+00C0","U+00C4","U+00CA","U+00CC","U+00CD","U+00CE",
                  "U+00DC","U+0191">>
Range(f) == { f[i] : i \in DOMAIN f }
LowerSet == Range(LowerLetters)
UpperSet == Range(UpperLetters)
LetterSet == LowerSet \cup UpperSet
DigitChars == {"0","1","2","3","4","5","6","7","8","9"}
Whitespace == {" ", "TAB"}

\* str.isalpha / str.isdigit / str.isspace on one character
IsAlpha(c) == c \in LetterSet
IsDigit(c) == c \in DigitChars
IsSpace(c) == c \in Whitespace

\* str.upper / str.lower on one character
UpperChar(c) ==
    IF c \in LowerSet
    THEN UpperLetters[CHOOSE i \in DOMAIN LowerLetters : LowerLetters[i] = c]
    ELSE c
LowerChar(c) ==
    IF c \in UpperSet
    THEN LowerLetters[CHOOSE i \in DOMAIN UpperLetters : UpperLetters[i] = c]
    ELSE c
\* str.upper
Upper(s) == [i \in DOMAIN s |-> UpperChar(s[i])]

\* `sub in s` for two strs
Contains(s, sub) ==
    \E i \in 0..(Len(s) - Len(sub)) :
        \A j \in 1..Len(sub) : s[i + j] = sub[j]

\* `x in list`
InList(x, list) == \E i \in DOMAIN list : list[i] = x

\* str.replace(old, new) for a one-character old; new is a str
RECURSIVE Replace(_, _, _)
Replace(s, old, new) ==
    IF s = <<>> THEN <<>>
    ELSE (IF Head(s) = old THEN new ELSE <<Head(s)>>)
         \o Replace(Tail(s), old, new)

\* str.strip(): leading and trailing whitespace removed
RECURSIVE LStrip(_)
LStrip(s) ==
    IF s /= <<>> /\ IsSpace(Head(s)) THEN LStrip(Tail(s)) ELSE s
RECURSIVE RStrip(_)
RStrip(s) ==
    IF s /= <<>> /\ IsSpace(s[Len(s)])
    THEN RStrip(SubSeq(s, 1, Len(s) - 1)) ELSE s
Strip(s) == RStrip(LStrip(s))

\* re.sub(r'\s+', ' ', s): every run of whitespace becomes one space
RECURSIVE CollapseSpaces(_)
CollapseSpaces(s) ==
    IF s = <<>> THEN <<>>
    ELSE IF IsSpace(Head(s))
         THEN <<" ">> \o CollapseSpaces(LStrip(s))
         ELSE <<Head(s)>> \o CollapseSpaces(Tail(s))

\* FlexibleTurkishParser.clean_text
clean_text(text) == CollapseSpaces(Strip(text))

\* len(s.split()): the number of maximal runs of non-whitespace
WordCount(s) ==
    Cardinality({ i \in DOMAIN s :
        /\ ~IsSpace(s[i])
        /\ (i = 1 \/ IsSpace(s[i - 1])) })

\* sum(1 for c in s if c.isalpha())
LetterCount(s) == Cardinality({ i \in DOMAIN s : IsAlpha(s[i]) })

\* re.match(r'^[\d\-\s:\.,%]+$', line)
DigitPunctChars == DigitChars \cup Whitespace \cup {"-", ":", ".", ",", "%"}
IsDigitPunct(line) ==
    line /= <<>> /\ \A i \in DOMAIN line : line[i] \in DigitPunctChars

(***************************************************************************)
(* FlexibleTurkishParser.is_team_match                                     *)
(***************************************************************************)
skip_terms ==
  << <<"D", "e", "t", "a", "y">>,
     <<"K", "a", "d", "r", "o">>,
     <<"A", "n", "l", "a", "t", "i", "m">>,
     <<"U+0192", "U+221E", "s", "t", "a", "t", "i", "s", "t", "i", "k">>,
     <<"K", "a", "r", "U+2248", "U+00FC", "U+0192", "U+00B1", "l", "a",
       "U+2248", "U+00FC", "t", "U+0192", "U+00B1", "r", "m", "a">>,
     <<"U+0192", "U+221E", "d", "d", "a", "a">>,
     <<"F", "o", "r", "u", "m">>,
     <<"Q", "u", "i", "c", "k", " ", "s", "e", "a", "r", "c", "h">>,
     <<"N", "E", "S", "I", "N", "E">>,
     <<"O", "L", "E", "Y">>,
     <<"M", "I", "S", "L", "I">>,
     <<"t", "u", "t", "t", "u", "r">>,
     <<"B", "I", "L", "Y", "O", "N", "E", "R">>,
     <<"A", "L", "T", "/", "U", "S", "T">>,
     <<"A", "l", "t", "/", "U", "s", "t">>,
     <<"S", "O", "N", "U", "C">>,
     <<"S", "A", "N", "S">>,
     <<"H", "A", "N", "D", "I", "C", "A", "P">>,
     <<"V", "a", "r">>,
     <<"Y", "o", "k">>,
     <<"E", "v", "e", "t">>,
     <<"H", "a", "y", "i", "r">>,
     <<"P", "E", "N">>,
     <<"m", "a", "c", "k", "o", "l", "i", "k">>,
     <<"G", "o", "l">>,
     <<"K", "a", "r", "U+2248", "U+00FC", "U+0192", "U+00B1", "l",
       "U+0192", "U+00B1", "k", "l", "U+0192", "U+00B1">> >>

\* any(term.upper() in line.upper() for term in skip_terms)
skip_terms_upper == [t \in DOMAIN skip_terms |-> Upper(skip_terms[t])]
HasSkipTerm(line) ==
    LET upper == Upper(line) IN
    \E t \in DOMAIN skip_terms : Contains(upper, skip_terms_upper[t])

common_words == {"A","B","C","D","E","F","G","H","I","J","K","L","M","N",
                 "O","P"}

\* `if len(words) == 1:` branch.  letter_count >= len(word) * 0.7 is decided
\* in integers: the double 0.7 lies below 7/10, so len(word) * 0.7 rounds to
\* at most the integer 7*len/10 when that is one, and the comparison agrees
\* with 10 * letter_count >= 7 * len(word).
SingleWordRuleWeak(word) ==
    Len(word) >= 3 /\ 10 * LetterCount(word) >= 7 * Len(word)
SingleWordRule(word) ==
    Len(word) >= 4 /\ 10 * LetterCount(word) >= 7 * Len(word)

\* `elif 2 <= len(words) <= 5:` branch (60% of the characters that are
\* neither ' ' nor '.')
MultiWordRule(line) ==
    LET total_chars == Len(Replace(Replace(line, " ", <<>>), ".", <<>>))
    IN  10 * LetterCount(line) >= 6 * total_chars

is_team_match(raw) ==
    LET line == Strip(raw) IN
    IF Len(line) < 3 THEN FALSE
    ELSE IF IsDigitPunct(line) THEN FALSE
    ELSE IF HasSkipTerm(line) THEN FALSE
    ELSE IF ~(\E i \in DOMAIN line : IsAlpha(line[i])) THEN FALSE
    ELSE IF Len(line) = 1 /\ UpperChar(line[1]) \in common_words THEN FALSE
    ELSE IF WordCount(line) = 1 THEN SingleWordRule(line)
    ELSE IF WordCount(line) >= 2 /\ WordCount(line) <= 5
         THEN MultiWordRule(line)
    ELSE FALSE


(***************************************************************************)
(* FlexibleTurkishParser.find_hidden_score                                 *)
(***************************************************************************)
\* The character class [-\-...] as the source file spells it: the hyphen
\* and the six code points that follow it inside the brackets.
DashClass == {"-", "U+201A", "U+00E0", "U+00ED", "U+00C4", "U+00EC",
              "U+00EE"}
OneClass   == {"I", "O", "1", "l", "|"}      \* [IO1l|]
ZeroClass  == {"O", "0", "o", "Q"}           \* [O0oQ]
TwoClass   == {"2", "z", "Z"}                \* [2zZ]
ThreeClass == {"3", "U+2206", "U+00EA"}      \* [3..]

\* potential_scores, in order: first class, \s*, dash class, \s*, second
potential_scores ==
    << [first |-> OneClass,   second |-> ZeroClass],
       [first |-> OneClass,   second |-> OneClass],
       [first |-> TwoClass,   second |-> ZeroClass],
       [first |-> TwoClass,   second |-> OneClass],
       [first |-> ThreeClass, second |-> ZeroClass] >>

\* a character against a class under re.IGNORECASE
InClassIgnoreCase(c, class) ==
    c \in class \/ UpperChar(c) \in class \/ LowerChar(c) \in class

\* s[i+1 .. j-1] is whitespace only (\s*)
SpacesBetween(s, i, j) == \A k \in (i + 1)..(j - 1) : IsSpace(s[k])

\* re.search(pattern, line, re.IGNORECASE)
SearchPattern(pattern, line) ==
    \E i \in DOMAIN line, j \in DOMAIN line, k \in DOMAIN line :
        /\ i < j /\ j < k
        /\ InClassIgnoreCase(line[i], pattern.first)
        /\ InClassIgnoreCase(line[j], DashClass)
        /\ InClassIgnoreCase(line[k], pattern.second)
        /\ SpacesBetween(line, i, j)
        /\ SpacesBetween(line, j, k)

\* line 128-130: the three chained replaces and the re.sub (case-sensitive)
NormalizeChar(c) ==
    IF c \in {"I", "l", "|"} THEN "1"
    ELSE IF c \in {"O", "o", "Q"} THEN "0"
    ELSE IF c \in DashClass THEN "-"
    ELSE c
NormalizeGlyphs(line) == [i \in DOMAIN line |-> NormalizeChar(line[i])]

\* a match of \d\s*-\s*\d at s[i..k]
ScoreAt(s, i, k) ==
    /\ i < k
    /\ IsDigit(s[i]) /\ IsDigit(s[k])
    /\ \E j \in (i + 1)..(k - 1) :
          s[j] = "-" /\ SpacesBetween(s, i, j) /\ SpacesBetween(s, j, k)

\* re.search(r'(\d\s*-\s*\d)', normalized): truthiness of the match
HasScore(s) == \E i \in DOMAIN s, k \in DOMAIN s : ScoreAt(s, i, k)

\* score_match.group(1).replace(' ', '') for the leftmost match
FirstScore(s) ==
    LET i == CHOOSE a \in DOMAIN s :
                 /\ \E k \in DOMAIN s : ScoreAt(s, a, k)
                 /\ \A b \in 1..(a - 1) : ~\E k \in DOMAIN s : ScoreAt(s, b, k)
        k == CHOOSE b \in DOMAIN s : ScoreAt(s, i, b)
    IN  Replace(SubSeq(s, i, k), " ", <<>>)

\* some pattern of potential_scores is found in the line
AnyPatternMatches(line) ==
    \E p \in DOMAIN potential_scores : SearchPattern(potential_scores[p], line)

\* The body of `for line in ocr_lines` for one line: the score it returns,
\* or None when the loop goes on to the next line.  The normalisation does
\* not depend on the pattern that matched, so the inner loop returns at its
\* first matching pattern exactly when the normalised line holds a score.
ScoreOfLine(raw) ==
    LET line       == clean_text(raw)
        normalized == NormalizeGlyphs(line)
    IN  IF AnyPatternMatches(line) /\ HasScore(normalized)
        THEN FirstScore(normalized)
        ELSE None

RECURSIVE find_hidden_score(_)
find_hidden_score(lines) ==
    IF lines = <<>> THEN None
    ELSE LET score == ScoreOfLine(Head(lines)) IN
         IF score /= None THEN score
         ELSE find_hidden_score(Tail(lines))


(***************************************************************************)
(* str(int), datetime.now().strftime(...)                                  *)
(***************************************************************************)
DigitSeq == <<"0","1","2","3","4","5","6","7","8","9">>
DigitOf(d) == DigitSeq[d + 1]

\* str(n) for n >= 0
RECURSIVE Str(_)
Str(n) == IF n < 10 THEN <<DigitOf(n)>>
          ELSE Str(n \div 10) \o <<DigitOf(n % 10)>>

\* %H, %M, %S, %m, %d: two digits, zero padded
TwoDigits(n) == <<DigitOf((n \div 10) % 10), DigitOf(n % 10)>>

\* The civil date of an epoch second (days-to-civil, proleptic Gregorian);
\* the clock is read as UTC.
CivilDate(t) ==
    LET z   == (t \div 86400) + 719468
        era == z \div 146097
        doe == z - era * 146097
        yoe == (doe - doe \div 1460 + doe \div 36524 - doe \div 146096) \div 365
        doy == doe - (365 * yoe + yoe \div 4 - yoe \div 100)
        mp  == (5 * doy + 2) \div 153
        d   == doy - (153 * mp + 2) \div 5 + 1
        m   == IF mp < 10 THEN mp + 3 ELSE mp - 9
        y   == yoe + era * 400 + (IF m <= 2 THEN 1 ELSE 0)
    IN  [year |-> y, month |-> m, day |-> d]

HourOf(t)   == (t % 86400) \div 3600
MinuteOf(t) == (t % 3600) \div 60
SecondOf(t) == t % 60

\* strftime('%H:%M:%S')
StrfClock(t) == TwoDigits(HourOf(t)) \o <<":">> \o TwoDigits(MinuteOf(t))
                \o <<":">> \o TwoDigits(SecondOf(t))
\* strftime("%H%M%S")
StrfCompact(t) == TwoDigits(HourOf(t)) \o TwoDigits(MinuteOf(t))
                  \o TwoDigits(SecondOf(t))
\* strftime("%Y-%m-%d %H:%M:%S")
StrfDateTime(t) ==
    Str(CivilDate(t).year) \o <<"-">> \o TwoDigits(CivilDate(t).month)
    \o <<"-">> \o TwoDigits(CivilDate(t).day) \o <<" ">> \o StrfClock(t)

(***************************************************************************)
(* FlexibleTurkishParser.extract_all_data                                  *)
(***************************************************************************)
\* re.match(r'^\d{1,2}[,\.]\d{2}$', line)
OddsShape(line) ==
    \/ /\ Len(line) = 4
       /\ IsDigit(line[1]) /\ line[2] \in {",", "."}
       /\ IsDigit(line[3]) /\ IsDigit(line[4])
    \/ /\ Len(line) = 5
       /\ IsDigit(line[1]) /\ IsDigit(line[2]) /\ line[3] \in {",", "."}
       /\ IsDigit(line[4]) /\ IsDigit(line[5])

\* float(line.replace(',', '.')) of a line of the odds shape, in hundredths
DigitValue(c) == CHOOSE d \in 0..9 : DigitSeq[d + 1] = c
Hundredths(line) ==
    IF Len(line) = 4
    THEN 100 * DigitValue(line[1])
         + 10 * DigitValue(line[3]) + DigitValue(line[4])
    ELSE 1000 * DigitValue(line[1]) + 100 * DigitValue(line[2])
         + 10 * DigitValue(line[4]) + DigitValue(line[5])

\* is_odds_value: the shape, then 1.01 <= odds_val <= 100.0
is_odds_value(line) ==
    IF OddsShape(Strip(line))
    THEN 101 <= Hundredths(Strip(line)) /\ Hundredths(Strip(line)) <= 10000
    ELSE FALSE

\* line 171: whole-line labels
exact_labels ==
  << <<"D", "E", "T", "A", "Y">>,
     <<"K", "A", "D", "R", "O">>,
     <<"I", "S", "T", "A", "T", "I", "S", "T", "I", "K">>,
     <<"I", "D", "D", "A", "A">>,
     <<"F", "O", "R", "U", "M">>,
     <<"M", "A", "C", "K", "O", "L", "I", "K">>,
     <<"M", "S">> >>
\* line 173: bookmaker names
site_terms ==
  << <<"N", "E", "S", "I", "N", "E">>,
     <<"N", "E", "S", "T", "N", "E">>,
     <<"O", "L", "E", "Y">>,
     <<"M", "I", "S", "L", "I">>,
     <<"M", "M", "I", "S", "L", "I">>,
     <<"T", "U", "T", "T", "U", "R">> >>
\* line 174: column captions
ui_terms ==
  << <<"E", "V">>,
     <<"D", "E", "P">>,
     <<"D", "C", "P">>,
     <<"S", "O", "N", "U", "C", "U">>,
     <<"Y", "A", "R", "I">>,
     <<"T", "O", "P", "L", "A", "M">>,
     <<"R", "O", "O", "T", "E", "D">> >>

ContainsAny(s, terms) == \E t \in DOMAIN terms : Contains(s, terms[t])

\* lines 169-174: the inline team-candidate test
IsTeamCandidate(line) ==
    LET upper == Upper(line) IN
    /\ Len(line) >= 3
    /\ ~IsDigitPunct(line)
    /\ ~InList(upper, exact_labels)
    /\ ~ContainsAny(upper, site_terms)
    /\ ~ContainsAny(upper, ui_terms)

\* lines 153-157: data['all_text'], the cleaned lines that are not empty
RECURSIVE AllText(_)
AllText(lines) ==
    IF lines = <<>> THEN <<>>
    ELSE (IF Len(clean_text(Head(lines))) < 1 THEN <<>>
          ELSE <<clean_text(Head(lines))>>)
         \o AllText(Tail(lines))

\* f"{a} - {b}"
JoinTeams(a, b) == a \o <<" ", "-", " ">> \o b

extract_all_data(lines) ==
    LET all_text        == AllText(lines)
        odds            == SelectSeq(all_text, OddsShape)
        team_candidates == SelectSeq(all_text, IsTeamCandidate)
        hidden_score    == find_hidden_score(all_text)
    IN  [ teams    |-> IF Len(team_candidates) >= 2
                       THEN JoinTeams(team_candidates[1], team_candidates[2])
                       ELSE IF Len(team_candidates) >= 1
                            THEN team_candidates[1]
                            ELSE None,
          ht_score |-> None,
          ft_score |-> IF hidden_score /= None THEN hidden_score
                       ELSE <<"0", "-", "0">>,
          odds     |-> odds,
          all_text |-> all_text ]

(***************************************************************************)
(* FlexibleTurkishParser.create_flexible_row                               *)
(***************************************************************************)
\* the result of a call: a returned value, or the exception it raised
Return(v) == [exc |-> "", value |-> v]
Raise(e)  == [exc |-> e, value |-> <<>>]

\* bool(x) for a str or None
Truthy(x) == x /= None /\ x /= <<>>
\* `x or default`
OrElse(x, default) == IF Truthy(x) THEN x ELSE default

\* ' | '.join(list[:2])
JoinFirstTwo(list) ==
    IF Len(list) = 0 THEN <<>>
    ELSE IF Len(list) = 1 THEN list[1]
    ELSE list[1] \o <<" ", "|", " ">> \o list[2]

\* line 202: [odd.replace(',', '.') for odd in data['odds']]
DotOdds(odds) == [i \in DOMAIN odds |-> Replace(odds[i], ",", <<".">>)]

\* lines 205-206: while len(odds) < 15: odds.append('0')
RECURSIVE PadOdds(_)
PadOdds(odds) == IF Len(odds) < 15 THEN PadOdds(Append(odds, <<"0">>))
                 ELSE odds

\* lines 202-206: the local `odds` the row is built from
RowOddsKeepComma(data) == PadOdds(data.odds)
RowOdds(data) == PadOdds(DotOdds(data.odds))

\* f"Active - {len(data['odds'])} odds found"
StatusNote(data) ==
    <<"A","c","t","i","v","e"," ","-"," ">> \o Str(Len(data.odds))
    \o <<" ","o","d","d","s"," ","f","o","u","n","d">>

\* lines 209-216: teams_info.  data is the dict extract_all_data built; a
\* key it does not hold raises KeyError.
TeamsInfo(data, now) ==
    IF Truthy(data.teams) THEN Return(data.teams)
    ELSE IF "categories" \notin DOMAIN data THEN Raise("KeyError")
    ELSE IF data.categories /= <<>>
         THEN Return(<<"D","a","t","a"," ","f","r","o","m",":"," ">>
                     \o JoinFirstTwo(data.categories))
    ELSE IF "betting_sites" \notin DOMAIN data THEN Raise("KeyError")
    ELSE IF data.betting_sites /= <<>>
         THEN Return(<<"B","e","t","t","i","n","g"," ","d","a","t","a",":"," ">>
                     \o JoinFirstTwo(data.betting_sites))
    ELSE Return(<<"O","d","d","s"," ","d","a","t","a"," ">> \o StrfClock(now))

create_flexible_row(data, now) ==
    LET odds       == RowOdds(data)
        teams_info == TeamsInfo(data, now)
    IN  IF teams_info.exc /= "" THEN Raise(teams_info.exc)
        ELSE Return(
            << teams_info.value,
               OrElse(data.ht_score, <<"0", "-", "0">>),
               OrElse(data.ft_score, <<"0", "-", "0">>),
               odds[1], odds[2], odds[3], odds[4], odds[5],
               odds[6], odds[7], odds[8], odds[9], odds[10],
               odds[11], odds[12], odds[13], odds[14], odds[15],
               StrfDateTime(now),
               StatusNote(data) >>)


(***************************************************************************)
(* GoogleSheetsManager (src/sheets1.py).  The worksheet is a sequence of   *)
(* rows; connect() has succeeded (main stops when it raises), so           *)
(* self.worksheet is set and no method raises "not connected".  A failing  *)
(* worksheet call (network, auth, quota) raises and changes nothing.       *)
(***************************************************************************)
batch_size == 100

\* write_row: [store, ret].  The exception of append_row is caught inside.
write_row(st, values, now, fail) ==
    LET stamped == IF Len(values) < 10
                   THEN Append(values, StrfDateTime(now)) ELSE values
    IN  IF fail THEN [store |-> st, ret |-> FALSE]
        ELSE [store |-> Append(st, stamped), ret |-> TRUE]

\* lines 121-124: processed_rows
StampRows(rows, now) ==
    [i \in DOMAIN rows |->
        IF Len(rows[i]) < 10 THEN Append(rows[i], StrfDateTime(now))
        ELSE rows[i]]

\* the number of batches range(0, len(processed_rows), batch_size) yields
NumBatches(rows) == (Len(rows) + batch_size - 1) \div batch_size

\* lines 127-129: the loop from batch b on; append_rows of batch failAt
\* raises (failAt = 0: none does)
RECURSIVE AppendBatches(_, _, _, _)
AppendBatches(st, rows, b, failAt) ==
    IF (b - 1) * batch_size >= Len(rows) THEN [store |-> st, ret |-> TRUE]
    ELSE IF b = failAt THEN [store |-> st, ret |-> FALSE]
    ELSE AppendBatches(
            st \o SubSeq(rows, (b - 1) * batch_size + 1,
                         Min(b * batch_size, Len(rows))),
            rows, b + 1, failAt)

\* write_rows_batch: [store, ret]
write_rows_batch(st, rows, now, failAt) ==
    IF rows = <<>> THEN [store |-> st, ret |-> TRUE]
    ELSE AppendBatches(st, StampRows(rows, now), 1, failAt)

\* clear_sheet: [store, ret]
clear_sheet(st, fail) ==
    IF fail THEN [store |-> st, ret |-> FALSE]
    ELSE [store |-> <<>>, ret |-> TRUE]

\* line 218: f"{row[0]}_{row[1]}_{row[2]}"
match_key(row) == row[1] \o <<"_">> \o row[2] \o <<"_">> \o row[3]

\* lines 212-223: the scan of all_values[1:], from `rows` on
RECURSIVE ScanRows(_, _, _, _)
ScanRows(rows, seen_matches, rows_to_keep, duplicates_removed) ==
    IF rows = <<>>
    THEN [rows_to_keep |-> rows_to_keep,
          duplicates_removed |-> duplicates_removed]
    ELSE LET row == Head(rows) IN
         IF Len(row) > 2
         THEN IF match_key(row) \notin seen_matches
              THEN ScanRows(Tail(rows), seen_matches \cup {match_key(row)},
                            Append(rows_to_keep, row), duplicates_removed)
              ELSE ScanRows(Tail(rows), seen_matches, rows_to_keep,
                            duplicates_removed + 1)
         ELSE ScanRows(Tail(rows), seen_matches, rows_to_keep,
                       duplicates_removed)

\* lines 227-228: the sheet after worksheet.clear() and
\* worksheet.append_rows(rows_to_keep)
SheetRewrittenWithoutClear(all_values, rows_to_keep) ==
    all_values \o rows_to_keep
SheetRewritten(all_values, rows_to_keep) == rows_to_keep

\* remove_duplicates: [store, failed, removed].  `fail` names the worksheet
\* call that raises if it is reached: "read" (get_all_values), "clear",
\* "append" (append_rows), or "none".  get_all_values returns the rows as
\* the sheet holds them.
remove_duplicates(st, fail) ==
    IF fail = "read" THEN [store |-> st, failed |-> TRUE, removed |-> 0]
    ELSE IF Len(st) <= 1 THEN [store |-> st, failed |-> FALSE, removed |-> 0]
    ELSE LET scan == ScanRows(Tail(st), {}, <<Head(st)>>, 0) IN
         IF scan.duplicates_removed > 0
         THEN IF fail = "clear"
              THEN [store |-> st, failed |-> TRUE, removed |-> 0]
              ELSE IF fail = "append"
              THEN [store |-> <<>>, failed |-> TRUE, removed |-> 0]
              ELSE [store |-> SheetRewritten(st, scan.rows_to_keep),
                    failed |-> FALSE,
                    removed |-> scan.duplicates_removed]
         ELSE [store |-> st, failed |-> FALSE, removed |-> 0]

(***************************************************************************)
(* FlexibleSheetsManager (src/turkish_parser1.py)                          *)
(***************************************************************************)
separator_row ==
    << <<"=", "=", "=", " ", "F", "L", "E", "X", "I", "B", "L", "E", " ",
         "T", "U", "R", "K", "I", "S", "H", " ", "P", "A", "R", "S", "E",
         "R", " ", "=", "=", "=">> >>

headers ==
  << <<"T", "a", "k", "i", "m", "l", "a", "r">>,
     <<"I", "l", "k", " ", "Y", "a", "r", "i", " ", "S", "k", "o", "r", "u">>,
     <<"M", "a", "U+221A", "U+00DF", " ", "S", "o", "n", "u", "c", "u", " ",
       "S", "k", "o", "r", "u">>,
     <<"M", "a", "U+221A", "U+00DF", " ", "S", "o", "n", "u", "c", "u", " ",
       "1">>,
     <<"M", "a", "U+221A", "U+00DF", " ", "S", "o", "n", "u", "c", "u", " ",
       "X">>,
     <<"M", "a", "U+221A", "U+00DF", " ", "S", "o", "n", "u", "c", "u", " ",
       "2">>,
     <<"U+221A", "U+00E1", "i", "f", "t", "e", " ", "U+2248", "U+00FB", "a",
       "n", "s", " ", "1", "-", "X">>,
     <<"U+221A", "U+00E1", "i", "f", "t", "e", " ", "U+2248", "U+00FB", "a",
       "n", "s", " ", "1", "-", "2">>,
     <<"U+221A", "U+00E1", "i", "f", "t", "e", " ", "U+2248", "U+00FB", "a",
       "n", "s", " ", "X", "-", "2">>,
     <<"H", "n", "d", ".", " ", "M", "S", " ", "(", "1", ":", "0", ")", " ",
       "1">>,
     <<"H", "n", "d", " ", "M", "S", " ", "(", "1", ":", "0", ")", " ", "X">>,
     <<"H", "n", "d", ".", " ", "M", "S", " ", "(", "1", ":", "0", ")", " ",
       "2">>,
     <<"H", "n", "d", ".", " ", "M", "S", " ", "(", "2", ":", "0", ")", " ",
       "1">>,
     <<"H", "n", "d", ".", " ", "M", "S", " ", "(", "2", ":", "0", ")", " ",
       "X">>,
     <<"H", "n", "d", ".", " ", "M", "S", " ", "(", "2", ":", "0", ")", " ",
       "2">>,
     <<"T", "i", "m", "e", "s", "t", "a", "m", "p">>,
     <<"S", "t", "a", "t", "u", "s">> >>

\* ensure_headers: [headers_written, store].  write_row catches the failure
\* of append_row and returns False, so neither call raises, the `except`
\* is not entered and headers_written is set.
ensure_headers(hw, st, now, failSep, failHdr) ==
    IF hw THEN [headers_written |-> hw, store |-> st]
    ELSE LET w1 == write_row(st, separator_row, now, failSep)
             w2 == write_row(w1.store, headers, now, failHdr)
         IN  [headers_written |-> TRUE, store |-> w2.store]

\* write_data: [headers_written, row, ret].  `ret` is the value returned;
\* `row` is what write_row did with the data row ([store, ret]).  The value
\* write_row returns is dropped and write_row does not raise.
write_data(hw, st, data_row, now, fails) ==
    LET h == ensure_headers(hw, st, now, fails[1], fails[2])
    IN  [headers_written |-> h.headers_written,
         row |-> write_row(h.store, data_row, now, fails[3]),
         ret |-> TRUE]

(***************************************************************************)
(* main (src/turkish_parser1.py): one iteration of `while True`            *)
(***************************************************************************)
process_interval == 10

\* str(x) inside an f-string
PyStr(x) == IF x = None THEN <<"N", "o", "n", "e">> ELSE x

\* ''.join(list[:5])
RECURSIVE Concat(_)
Concat(list) == IF list = <<>> THEN <<>> ELSE Head(list) \o Concat(Tail(list))
FirstFive(list) == SubSeq(list, 1, Min(5, Len(list)))

\* lines 358-360: data_id
DataId(data, now) ==
    PyStr(data.teams) \o <<"_">> \o PyStr(data.ft_score) \o <<"_">>
    \o Concat(FirstFive(data.odds)) \o <<"_">> \o StrfCompact(now)

\* the texts OCR returned whose strip() is not empty
NonBlank(texts) == SelectSeq(texts, LAMBDA t : Strip(t) /= <<>>)

\* line 354 and line 363: the two gates
AssemblerGate(data) == Truthy(data.teams) \/ Len(data.odds) >= 3
PersistGateTeamsSuffice(data) == Truthy(data.teams) \/ Len(data.odds) >= 3
PersistGate(data) == Len(data.odds) >= 3

(***************************************************************************)
(* What the variables of a part hold while another part is exercised       *)
(***************************************************************************)
DriverIdle ==
    /\ running = FALSE /\ last_process_time = 0 /\ processed_matches = {}
    /\ headers_written = FALSE /\ ocr_lines = <<>> /\ outcome = NoOutcome
    /\ appended_ids = <<>>
SinkIdle == before = <<>> /\ call = NoCall /\ cleanRuns = <<>>
PureIdle == arg = <<>> /\ ret = NotCalled

(***************************************************************************)
(* The run of main: iterations of the loop while the clock advances        *)
(***************************************************************************)
\* What OCR may read off the screen in one iteration.
Captures ==
    { <<>>,
      \* three odds, no team
      << <<"1", ",", "8", "5">>, <<"3", ",", "2", "0">>,
         <<"4", ".", "1", "0">> >>,
      \* two odds and a blank text, no team
      << <<"1", ",", "8", "5">>, <<" ">>, <<"3", ",", "2", "0">> >>,
      \* a team, a misread score, one odds value
      << <<"F", "e", "n", "e", "r">>, <<"2", " ", "-", " ", "l">>,
         <<"1", ",", "8", "5">> >>,
      \* the bookmaker's name, two teams, three odds, the score
      << <<"N", "E", "S", "I", "N", "E">>,
         <<"F", "e", "n", "e", "r", "b", "a", "h", "c", "e">>,
         <<"G", "a", "l", "a", "t", "a", "s", "a", "r", "a", "y">>,
         <<"1", ",", "8", "5">>, <<"3", ",", "2", "0">>,
         <<"4", ",", "1", "0">>, <<"1", "-", "0">> >> }

\* line 347: ocr_lines, the texts whose strip() is not empty, and
\* extract_all_data tabulated over the ocr_lines the captures give
OcrLines == { NonBlank(c) : c \in Captures }
Extracted == [lines \in OcrLines |-> extract_all_data(lines)]

\* cv2.waitKey(100): 'q', 's', or anything else
Keys == {"q", "s", "other"}

\* lines 343-362 of an iteration that is due, up to the call of
\* write_data: the branch taken and the locals.  `texts` is what OCR read
\* off the screen; branch "write" means write_data is called next.
Prepare(texts, now) ==
    LET nothing == [branch |-> "no_text", lines |-> <<>>,
                    data_row |-> <<>>, data_id |-> None]
    IN
    IF texts = <<>> THEN nothing
    ELSE
    LET lines == NonBlank(texts)
        data  == Extracted[lines]
    IN
    IF ~AssemblerGate(data)
    THEN [nothing EXCEPT !.branch = "no_data", !.lines = lines]
    ELSE
    LET built == create_flexible_row(data, now) IN
    IF built.exc /= ""
    THEN [nothing EXCEPT !.branch = "error", !.lines = lines]
    ELSE [branch   |-> IF PersistGate(data) THEN "write" ELSE "few_odds",
          lines    |-> lines,
          data_row |-> built.value,
          data_id  |-> DataId(data, now)]

\* Prepare, tabulated over the seconds the clock can show
ClockValues == { RunStart + i * process_interval : i \in 0..MaxTicks }
Prepared == [t \in ClockValues |-> [c \in Captures |-> Prepare(c, t)]]

\* lines 364-369: what the iteration leaves behind once write_data has
\* returned w
Written(p, w) ==
    [ processed_matches |-> IF w.ret THEN processed_matches \cup {p.data_id}
                            ELSE processed_matches,
      headers_written   |-> w.headers_written,
      store             |-> w.row.store,
      ocr_lines         |-> p.lines,
      appended_ids      |-> IF w.row.ret
                            THEN Append(appended_ids, p.data_id)
                            ELSE appended_ids,
      outcome           |-> [branch    |-> IF w.ret THEN "saved" ELSE "failed",
                             forwarded |-> <<p.data_row>>,
                             appended  |-> w.row.ret,
                             success   |-> w.ret,
                             data_id   |-> p.data_id] ]

\* lines 343-384, the `try` of an iteration that is due: the new values of
\* the variables it may change.  `fails` tells which of the three appends
\* of write_data (separator, header, data row) fail.
Process(p, fails, now) ==
    IF p.branch /= "write"
    THEN [ processed_matches |-> processed_matches,
           headers_written   |-> headers_written,
           store             |-> store,
           ocr_lines         |-> p.lines,
           appended_ids      |-> appended_ids,
           outcome           |-> [NoOutcome EXCEPT !.branch = p.branch,
                                                   !.data_id = p.data_id] ]
    ELSE Written(p, write_data(headers_written, store, p.data_row, now, fails))

\* the outcomes of the appends that an iteration can tell apart
NoFailure == [i \in 1..3 |-> FALSE]
FailChoices(p) ==
    IF p.branch /= "write" THEN {NoFailure}
    ELSE IF headers_written
         THEN { [NoFailure EXCEPT ![3] = f] : f \in BOOLEAN }
         ELSE [1..3 -> BOOLEAN]

Init ==
    /\ running = TRUE
    /\ clock = RunStart
    /\ last_process_time = 0
    /\ processed_matches = {}
    /\ headers_written = FALSE
    /\ store = <<>>
    /\ ocr_lines = <<>>
    /\ outcome = NoOutcome
    /\ appended_ids = <<>>
    /\ SinkIdle /\ PureIdle

\* lines 330-395: one pass of the loop body.  time.time() and every
\* datetime.now() of the pass read the same second.  A pass that is not
\* due runs no OCR.
Iterate ==
    /\ running
    /\ Len(store) < MaxStore
    /\ LET current_time == clock
           due == current_time - last_process_time >= process_interval
       IN
       \E texts \in (IF due THEN Captures ELSE {<<>>}) :
         LET p == IF due THEN Prepared[current_time][texts]
                  ELSE [branch |-> "idle", lines |-> <<>>,
                        data_row |-> <<>>, data_id |-> None]
         IN
         \E fails \in FailChoices(p), key \in Keys :
           \E r \in {Process(p, fails, current_time)} :
             /\ processed_matches' = r.processed_matches
             /\ headers_written' = r.headers_written
             /\ store' = r.store
             /\ ocr_lines' = r.ocr_lines
             /\ appended_ids' = r.appended_ids
             /\ outcome' = r.outcome
             /\ last_process_time' =
                    IF key = "s" THEN 0
                    ELSE IF due THEN current_time ELSE last_process_time
             /\ running' = (key /= "q")
    /\ UNCHANGED <<clock, sinkVars, pureVars>>

\* Time passes between two passes of the loop.  The clock is advanced a
\* whole processing interval at a time: a shorter wait takes main through
\* the same branches as no wait.
Tick ==
    /\ running
    /\ clock < RunStart + MaxTicks * process_interval
    /\ clock' = clock + process_interval
    /\ UNCHANGED <<running, last_process_time, processed_matches,
                   headers_written, store, ocr_lines, outcome, appended_ids,
                   sinkVars, pureVars>>

Next == Iterate \/ Tick

Spec == Init /\ [][Next]_vars

\* the data extracted in the iteration that ran last
LastData == Extracted[ocr_lines]
\* that iteration was due and OCR read some text
LastProcessed == outcome.branch \notin {"none", "idle", "no_text"}

\* C1: a capture with no team candidate and at least 3 odds lines has
\* exactly one data row handed to the sink, and the teams field of that
\* row is a non-empty placeholder.
C1_PlaceholderRowForwarded ==
    (LastProcessed /\ LastData.teams = None /\ Len(LastData.odds) >= 3) =>
        /\ Len(outcome.forwarded) = 1
        /\ Truthy(outcome.forwarded[1][1])

\* C2: a step of the run changes the sheet or processed_matches only if
\* the capture of that step collected at least 3 odds values; a capture
\* with a team but fewer than 3 odds appends nothing and records no
\* fingerprint.
C2_PersistOnlyWithThreeOdds ==
    [][ (store' /= store \/ processed_matches' /= processed_matches)
            => Len(Extracted[ocr_lines'].odds) >= 3 ]_vars

\* a capture with a resolved team and fewer than 3 odds was processed and
\* discarded
C2_Witness ==
    /\ outcome.branch = "few_odds"
    /\ Truthy(LastData.teams) /\ Len(LastData.odds) < 3
    /\ outcome.forwarded = <<>>

\* C4: when the append of the data row fails, write_data reports failure;
\* a fingerprint is in processed_matches only if its row was appended.
C4_FailedAppendNotRecorded ==
    /\ (Len(outcome.forwarded) = 1 /\ ~outcome.appended) => ~outcome.success
    /\ processed_matches \subseteq Range(appended_ids)

\* C5: no two data rows appended in a run have the same fingerprint (a
\* capture whose fingerprint is in processed_matches is not forwarded
\* again).
C5_NoFingerprintAppendedTwice ==
    \A i, j \in DOMAIN appended_ids :
        i /= j => appended_ids[i] /= appended_ids[j]

\* C11: every data row handed to write_data has exactly 17 positions, as
\* many as the header row ensure_headers writes, with the capture
\* timestamp and the status note under the last two headers.
C11_RowAlignedWithHeaders ==
    \A i \in DOMAIN outcome.forwarded :
        LET row == outcome.forwarded[i] IN
        /\ Len(row) = 17
        /\ Len(row) = Len(headers)
        /\ row[Len(headers) - 1] = StrfDateTime(clock)
        /\ row[Len(headers)] = StatusNote(LastData)

\* the rows of the sheet that are the header row, the separator row
HeaderRows == { i \in DOMAIN store : store[i] = headers }
SeparatorRows == { i \in DOMAIN store : store[i][1] = separator_row[1] }

\* C13: over the write_data calls of a run, whose appends may fail, the
\* sheet holds the separator row and the header row at most once each,
\* headers_written is true only if the header row is in the sheet, and
\* every data row of the sheet comes after the header row.
C13_HeadersOnceAndPresent ==
    /\ Cardinality(HeaderRows) <= 1
    /\ Cardinality(SeparatorRows) <= 1
    /\ headers_written => HeaderRows /= {}
    /\ \A i \in DOMAIN store :
          i \notin HeaderRows \cup SeparatorRows =>
              \E j \in HeaderRows : j < i

(***************************************************************************)
(* Calls of is_team_match on every line over a small alphabet              *)
(***************************************************************************)
TeamAlphabet == {"V", "a", "r", "7", " "}

InitTeam ==
    /\ arg \in SeqUpTo(TeamAlphabet, MaxLineLen)
    /\ ret = NotCalled
    /\ clock = RunStart /\ store = <<>>
    /\ DriverIdle /\ SinkIdle

CallIsTeamMatch ==
    /\ ~ret.done
    /\ ret' = Called(is_team_match(arg))
    /\ UNCHANGED <<arg, clock, store, driverVars, sinkVars>>

SpecTeam == InitTeam /\ [][CallIsTeamMatch]_vars

\* the line is one word, and the 70% rule in integers
IsSingleWord(line) == WordCount(Strip(line)) = 1
MostlyLetters(word) == 10 * LetterCount(word) >= 7 * Len(word)

\* C10 as stated: a single-word line is accepted exactly when it has at
\* least 4 characters of which at least 70% are alphabetic.
C10_AsStated ==
    (ret.done /\ IsSingleWord(arg)) =>
        (ret.value <=> (Len(Strip(arg)) >= 4 /\ MostlyLetters(Strip(arg))))

\* C10 amended: for every single-word line that contains none of the
\* denylisted terms (case-insensitively), is_team_match accepts it if it
\* has at least 4 characters of which at least 70% are alphabetic, and
\* rejects it if it is shorter than 4 or less than 70% alphabetic.
C10_SingleWordRule ==
    (ret.done /\ IsSingleWord(arg) /\ ~HasSkipTerm(Strip(arg))) =>
        (ret.value <=> (Len(Strip(arg)) >= 4 /\ MostlyLetters(Strip(arg))))

\* a four-character word with one digit (75% letters) was accepted
C10_Witness ==
    /\ ret.done /\ ret.value = TRUE
    /\ IsSingleWord(arg) /\ ~HasSkipTerm(Strip(arg))
    /\ Len(Strip(arg)) = 4 /\ LetterCount(Strip(arg)) = 3

(***************************************************************************)
(* Calls of find_hidden_score on short line sequences                      *)
(***************************************************************************)
ScoreLinePool ==
    { <<"I", "-", "O">>,
      <<"2", " ", "-", " ", "l">>,
      <<"z", "-", "0">>,
      <<"q", "-", "q">>,
      <<"3", "-", "1">>,
      <<"4", "-", "4", " ", "I", "-", "O">>,
      <<"F", "e", "n", "e", "r">>,
      <<"1", ",", "8", "5">> }

InitScore ==
    /\ arg \in SeqUpTo(ScoreLinePool, MaxScoreLines)
    /\ ret = NotCalled
    /\ clock = RunStart /\ store = <<>>
    /\ DriverIdle /\ SinkIdle

CallFindHiddenScore ==
    /\ ~ret.done
    /\ ret' = Called(find_hidden_score(arg))
    /\ UNCHANGED <<arg, clock, store, driverVars, sinkVars>>

SpecScore == InitScore /\ [][CallFindHiddenScore]_vars

\* the lines of `lines` in which some score pattern is found
MatchingLines(lines) ==
    { i \in DOMAIN lines : AnyPatternMatches(clean_text(lines[i])) }
EarliestMatching(lines) ==
    CHOOSE i \in MatchingLines(lines) :
        \A j \in MatchingLines(lines) : i <= j
IsDigitHyphenDigit(s) ==
    Len(s) = 3 /\ IsDigit(s[1]) /\ s[2] = "-" /\ IsDigit(s[3])

\* C9: a returned score is the first digit-hyphen-digit substring of the
\* normalised EARLIEST line in which a score pattern is found (later lines
\* never contribute) and has the form D-D; when no line matches a pattern
\* the result is None.
C9_FirstMatchWins ==
    ret.done =>
      /\ (ret.value /= None =>
            /\ IsDigitHyphenDigit(ret.value)
            /\ LET first == NormalizeGlyphs(
                                clean_text(arg[EarliestMatching(arg)]))
               IN  HasScore(first) /\ ret.value = FirstScore(first))
      /\ (MatchingLines(arg) = {} => ret.value = None)

(***************************************************************************)
(* Calls of create_flexible_row on captures with 0..MaxOdds odds lines     *)
(***************************************************************************)
(* Calls of extract_all_data on short captures of odds-like and team-like  *)
(* lines                                                                   *)
(***************************************************************************)
TriageLinePool ==
    { <<"1", ",", "8", "5">>,
      <<"0", ",", "5", "0">>,
      <<"F", "e", "n">>,
      <<"F", "e", "n", "e", "r">>,
      <<"V", "a", "r", "n", "a">>,
      <<"1", "-", "0">>,
      <<" ">> }

InitTriage ==
    /\ arg \in SeqUpTo(TriageLinePool, MaxTriageLines)
    /\ ret = NotCalled
    /\ clock = RunStart /\ store = <<>>
    /\ DriverIdle /\ SinkIdle

CallExtractAllData ==
    /\ ~ret.done
    /\ ret' = Called(extract_all_data(arg))
    /\ UNCHANGED <<arg, clock, store, driverVars, sinkVars>>

SpecTriage == InitTriage /\ [][CallExtractAllData]_vars

\* the first two of `lines` joined by " - ", the only one alone, or None
FirstTwoJoined(lines) ==
    IF Len(lines) >= 2 THEN JoinTeams(lines[1], lines[2])
    ELSE IF Len(lines) = 1 THEN lines[1]
    ELSE None

\* C12: the odds list extract_all_data returns holds exactly the cleaned
\* lines is_odds_value accepts, in their order, and the teams field is
\* made of the first two cleaned lines is_team_match accepts.
C12_TriageAgreesWithClassifier ==
    ret.done =>
        /\ ret.value.odds = SelectSeq(ret.value.all_text, is_odds_value)
        /\ ret.value.teams =
               FirstTwoJoined(SelectSeq(ret.value.all_text, is_team_match))

(***************************************************************************)
OddsPool == << <<"1", ",", "8", "5">>,
               <<"3", ".", "2", "0">>,
               <<"1", "0", ",", "5", "0">> >>

\* k odds lines: the pool taken round and round, starting at entry r + 1
OddsLines(k, r) == [i \in 1..k |-> OddsPool[((i + r) % Len(OddsPool)) + 1]]

TeamLines == { <<>>, << <<"F", "e", "n", "e", "r">> >> }

InitRow ==
    /\ \E k \in 0..MaxOdds, r \in 0..(Len(OddsPool) - 1), t \in TeamLines :
           arg = extract_all_data(t \o OddsLines(k, r))
    /\ ret = NotCalled
    /\ clock = RunStart /\ store = <<>>
    /\ DriverIdle /\ SinkIdle

CallCreateFlexibleRow ==
    /\ ~ret.done
    /\ ret' = Called(create_flexible_row(arg, clock))
    /\ UNCHANGED <<arg, clock, store, driverVars, sinkVars>>

SpecRow == InitRow /\ [][CallCreateFlexibleRow]_vars

\* C3: a row built by create_flexible_row from k collected odds has 15
\* odds slots (positions 4..18 of 17): slot i holds the i-th collected
\* value with its comma turned into a period for i <= min(k, 15), every
\* other slot holds "0", and the values after the 15th are not in the row.
C3_OddsSlots ==
    (ret.done /\ ret.value.exc = "") =>
        LET row == ret.value.value
            k   == Len(arg.odds)
        IN  /\ Len(row) = 3 + 15 + 2
            /\ \A i \in 1..15 :
                  row[3 + i] = IF i <= Min(k, 15)
                               THEN Replace(arg.odds[i], ",", <<".">>)
                               ELSE <<"0">>

\* a row was built from more than 15 collected odds, one of them with a comma
C3_Witness ==
    /\ ret.done /\ ret.value.exc = ""
    /\ Len(arg.odds) > 15
    /\ \E i \in 1..15 : Contains(arg.odds[i], <<",">>)


(***************************************************************************)
(* Direct calls on a connected GoogleSheetsManager, any of which may hit   *)
(* a failing worksheet call                                                *)
(***************************************************************************)
RowPool ==
    { << <<"L">>, <<"D">>, <<"T">> >>,
      << <<"L", "_", "D">>, <<"T">>, <<"X">> >>,
      << <<"L">>, <<"D", "_", "T">>, <<"X">> >>,
      << <<"L">> >> }

InitSink ==
    /\ store = <<>> /\ clock = RunStart
    /\ before = <<>> /\ call = NoCall /\ cleanRuns = <<>>
    /\ DriverIdle /\ PureIdle

SinkWriteRow ==
    \E values \in RowPool, fail \in BOOLEAN :
        /\ Len(store) < MaxRows
        /\ LET w == write_row(store, values, clock, fail) IN
           /\ store' = w.store
           /\ call' = [op |-> "write_row", failed |-> fail, ret |-> w.ret,
                       removed |-> 0]
        /\ before' = store
        /\ cleanRuns' = <<>>
        /\ UNCHANGED <<clock, driverVars, pureVars>>

SinkWriteRowsBatch ==
    \E rows \in SeqUpTo(RowPool, MaxBatch) :
      \E failAt \in 0..NumBatches(rows) :
        /\ Len(store) + Len(rows) <= MaxRows
        /\ LET w == write_rows_batch(store, rows, clock, failAt) IN
           /\ store' = w.store
           /\ call' = [op |-> "write_rows_batch", failed |-> failAt /= 0,
                       ret |-> w.ret, removed |-> 0]
        /\ before' = store
        /\ cleanRuns' = <<>>
        /\ UNCHANGED <<clock, driverVars, pureVars>>

SinkClearSheet ==
    \E fail \in BOOLEAN :
        /\ LET w == clear_sheet(store, fail) IN
           /\ store' = w.store
           /\ call' = [op |-> "clear_sheet", failed |-> fail, ret |-> w.ret,
                       removed |-> 0]
        /\ before' = store
        /\ cleanRuns' = <<>>
        /\ UNCHANGED <<clock, driverVars, pureVars>>

\* the rows removed by the last two runs at most
LastTwo(s) == IF Len(s) > 2 THEN SubSeq(s, Len(s) - 1, Len(s)) ELSE s

SinkRemoveDuplicates ==
    \E fail \in {"none", "read", "clear", "append"} :
        /\ LET r == remove_duplicates(store, fail) IN
           /\ store' = r.store
           /\ call' = [op |-> "remove_duplicates", failed |-> r.failed,
                       ret |-> ~r.failed, removed |-> r.removed]
           /\ cleanRuns' = IF r.failed THEN <<>>
                           ELSE LastTwo(Append(cleanRuns,
                                        Len(store) - Len(r.store)))
        /\ before' = store
        /\ UNCHANGED <<clock, driverVars, pureVars>>

NextSink ==
    \/ SinkWriteRow
    \/ SinkWriteRowsBatch
    \/ SinkClearSheet
    \/ SinkRemoveDuplicates

SpecSink == InitSink /\ [][NextSink]_vars

\* C6: when remove_duplicates has just run twice in a row, both runs
\* without a failing worksheet call, the second run removed no row and
\* left the sheet as the first run left it.
C6_CleanupIdempotent ==
    Len(cleanRuns) = 2 =>
        /\ store = before
        /\ cleanRuns[2] = 0
        /\ call.removed = 0

\* two clean runs in a row, the first of which removed rows
C6_Witness ==
    /\ Len(cleanRuns) = 2 /\ cleanRuns[1] > 0
    /\ call.op = "remove_duplicates" /\ Len(store) >= 2

\* the first three columns of a row, a missing column read as empty
Column(row, i) == IF i <= Len(row) THEN row[i] ELSE <<>>
FirstThree(row) == <<Column(row, 1), Column(row, 2), Column(row, 3)>>

\* the data rows whose first three columns, column by column, equal those
\* of no earlier data row, in their order
RECURSIVE FirstOfEachMatch(_, _)
FirstOfEachMatch(data, earlier) ==
    IF data = <<>> THEN <<>>
    ELSE (IF FirstThree(Head(data)) \in earlier THEN <<>>
          ELSE <<Head(data)>>)
         \o FirstOfEachMatch(Tail(data), earlier \cup {FirstThree(Head(data))})

\* C7: after a remove_duplicates run that hit no failure the sheet holds
\* the header row followed by exactly the data rows that are no true
\* duplicate (first three columns, compared column by column, a missing
\* column read as empty) of an earlier data row, in their order.
C7_KeepsFirstOfEachMatch ==
    (call.op = "remove_duplicates" /\ ~call.failed /\ before /= <<>>) =>
        store = <<Head(before)>> \o FirstOfEachMatch(Tail(before), {})

\* C8: a write_rows_batch call that returns failure has put none of its
\* rows in the sheet, and a remove_duplicates call that hit a failing
\* worksheet call has left the rows of the sheet as they were.
C8_AllOrNothing ==
    /\ (call.op = "write_rows_batch" /\ ~call.ret) => store = before
    /\ (call.op = "remove_duplicates" /\ call.failed) => store = before

=============================================================================
